---- MODULE Spec2Model ----
(***************************************************************************)
(* A model of the payroll report generator of src/main.py: Record          *)
(* construction and its value normalizer, Group aggregates, the Report     *)
(* pipeline (add_fields, process, create), the two Formatter renderers,    *)
(* SaveToFile and main().                                                   *)
(*                                                                         *)
(* Python values are modelled by records of one shape (Val): a string is   *)
(* the sequence of its characters, a number is the exact decimal           *)
(* n / 10^d together with its Python type (int or float).  The float      *)
(* values the model draws are short decimals, on which exact decimal       *)
(* arithmetic and IEEE arithmetic agree.                                   *)
(***************************************************************************)
EXTENDS Integers, Sequences, FiniteSets, TLC

VARIABLES
    records,    \* the list of Record objects handed to the reports (the heap)
    pc,         \* where the running create call is: idle, add_fields or process
    report,     \* the report class of the running (or last) create call
    idx,        \* the position of add_fields in the include list
    calls,      \* the add_* methods the running create call has invoked
    reviews,    \* the Reviews returned so far; Groups refer to records by position
    raised,     \* the exception the last call raised, NoErr when it returned
    ncreate,    \* create calls made
    built,      \* the outcome of the last Group(...) a caller made directly
    out,        \* the outcome of Formatter.console on the latest Review
    doc,        \* the outcome of Formatter.jsonfile on the latest Review
    rawrow,     \* the six raw values handed to Record(...)
    made,       \* the Record built from rawrow
    args,       \* the parsed command line of a main() run
    mainpc,     \* where main() is; off when the behaviour is not a main() run
    events,     \* what a main() run has done so far, in order
    saver,      \* the SaveToFile object main() has constructed
    disk,       \* the files written, in order
    fs          \* the files there are to read: their text, line by line

pipeVars == <<records, pc, report, idx, calls, reviews, raised, ncreate>>
fmtVars == <<out, doc>>
normVars == <<rawrow, made>>
mainVars == <<args, mainpc, events, saver, disk, fs>>
vars == <<pipeVars, built, fmtVars, normVars, mainVars>>

\* ------------------------------------------------------------------ bounds
MaxRawLen == 3      \* longest raw string handed to the normalizer
MaxRecords == 3     \* longest record list handed to a report
MaxCreates == 2     \* create calls in one behaviour
MaxDataRows == 1    \* data rows of a file handed to load_records alone

\* ------------------------------------------------------------------ values
Digits == <<"0", "1", "2", "3", "4", "5", "6", "7", "8", "9">>
DigitChars == {Digits[i] : i \in 1..10}

Str(chars) == [t |-> "str", s |-> chars, n |-> 0, d |-> 0]
Int_(n) == [t |-> "int", s |-> <<>>, n |-> n, d |-> 0]
Float_(n, d) == [t |-> "float", s |-> <<>>, n |-> n, d |-> d]
None == [t |-> "none", s |-> <<>>, n |-> 0, d |-> 0]

IsNumber(v) == v.t \in {"int", "float"}

Abs(n) == IF n < 0 THEN -n ELSE n

RECURSIVE Pow10(_)
Pow10(k) == IF k = 0 THEN 1 ELSE 10 * Pow10(k - 1)

\* the decimal n / 10^d in lowest terms: <<n, d>> with no trailing zero digit
RECURSIVE Normal(_, _)
Normal(n, d) ==
    IF d > 0 /\ Abs(n) % 10 = 0
    THEN Normal((IF n < 0 THEN -1 ELSE 1) * (Abs(n) \div 10), d - 1)
    ELSE <<n, d>>

\* float.is_integer()
is_integer(n, d) == Normal(n, d)[2] = 0

\* a float result of Python arithmetic
MkFloat(n, d) == LET nd == Normal(n, d) IN Float_(nd[1], nd[2])

Max(a, b) == IF a >= b THEN a ELSE b

\* a + b on Python numbers: int + int is an int, anything else a float
PyAdd(a, b) ==
    LET d == Max(a.d, b.d)
        n == a.n * Pow10(d - a.d) + b.n * Pow10(d - b.d)
    IN  IF a.t = "int" /\ b.t = "int" THEN Int_(a.n + b.n) ELSE MkFloat(n, d)

\* a * b on Python numbers
PyMul(a, b) ==
    IF a.t = "int" /\ b.t = "int" THEN Int_(a.n * b.n)
    ELSE MkFloat(a.n * b.n, a.d + b.d)

\* ------------------------------------------------------- float(value)
IsSpace(c) == c \in {" ", "\t", "\n", "\r"}

RECURSIVE LStrip(_)
LStrip(s) == IF s # <<>> /\ IsSpace(Head(s)) THEN LStrip(Tail(s)) ELSE s

RECURSIVE RStrip(_)
RStrip(s) ==
    IF s # <<>> /\ IsSpace(s[Len(s)]) THEN RStrip(SubSeq(s, 1, Len(s) - 1)) ELSE s

Strip(s) == RStrip(LStrip(s))

DigitVal(c) == (CHOOSE i \in 1..10 : Digits[i] = c) - 1

RECURSIVE DigitsVal(_)
DigitsVal(s) ==
    IF s = <<>> THEN 0
    ELSE 10 * DigitsVal(SubSeq(s, 1, Len(s) - 1)) + DigitVal(s[Len(s)])

\* float(str): surrounding blanks are dropped, then an optional sign and a
\* decimal literal with at least one digit and at most one point.
\* The result is [ok |-> FALSE] for Python's ValueError.
ParseFloat(chars) ==
    LET t    == Strip(chars)
        neg  == t # <<>> /\ Head(t) = "-"
        body == IF t # <<>> /\ Head(t) \in {"-", "+"} THEN Tail(t) ELSE t
        dots == {i \in 1..Len(body) : body[i] = "."}
        ok   == /\ \A i \in 1..Len(body) : body[i] \in DigitChars \cup {"."}
                /\ Cardinality(dots) <= 1
                /\ \E i \in 1..Len(body) : body[i] \in DigitChars
        dot  == IF dots = {} THEN Len(body) + 1 ELSE CHOOSE i \in dots : TRUE
        ipart == SubSeq(body, 1, dot - 1)
        fpart == SubSeq(body, dot + 1, Len(body))
        mag  == DigitsVal(ipart \o fpart)
    IN  IF ok
        THEN [ok |-> TRUE, n |-> IF neg THEN -mag ELSE mag, d |-> Len(fpart)]
        ELSE [ok |-> FALSE, n |-> 0, d |-> 0]

\* float(value) for a value that is a string or already a number
float(value) ==
    IF value.t = "str" THEN ParseFloat(value.s)
    ELSE [ok |-> TRUE, n |-> value.n, d |-> value.d]

\* int(number) if number.is_integer() else number
Narrow(number) ==
    IF is_integer(number.n, number.d)
    THEN Int_(Normal(number.n, number.d)[1])
    ELSE MkFloat(number.n, number.d)

to_number_drop_default(value, default) ==
    IF float(value).ok THEN Narrow(float(value)) ELSE value

\* Record._to_number
to_number(value, default) ==
    IF float(value).ok THEN Narrow(float(value))
    ELSE IF default # None THEN default ELSE value

\* ------------------------------------------------------------------ Record
BaseFields == {"employee_id", "department", "email", "name", "hours", "rate"}

\* Record(employee_id, department, email, name, hours, rate): the dataclass
\* __init__ followed by __post_init__
Record(employee_id, department, email, name, hours, rate) ==
    [f \in BaseFields |->
        CASE f = "employee_id" -> to_number(employee_id, None)
          [] f = "department"  -> department
          [] f = "email"       -> email
          [] f = "name"        -> name
          [] f = "hours"       -> to_number(hours, Int_(0))
          [] f = "rate"        -> to_number(rate, Int_(0))]

hasattr(obj, attr) == attr \in DOMAIN obj

setattr_without_effect(obj, attr, value) == obj

\* setattr(obj, attr, value)
setattr(obj, attr, value) ==
    [a \in DOMAIN obj \cup {attr} |-> IF a = attr THEN value ELSE obj[a]]

\* ------------------------------------------------------------------ errors
NoErr == [type |-> "none", msg |-> <<>>]

\* an exception: its class and the pieces of its message, in order
Raise(type, msg) == [type |-> type, msg |-> msg]

\* getattr(record, field) on a Record that lacks the attribute
NoAttribute(field) ==
    Raise("AttributeError", <<"'Record' object has no attribute '", field, "'">>)

\* 0 + "text" inside sum()
BadOperand == Raise("TypeError", <<"unsupported operand type(s) for +: 'int' and 'str'">>)

Failed(err) == [ok |-> FALSE, val |-> None, err |-> err]
Returned(val) == [ok |-> TRUE, val |-> val, err |-> NoErr]

\* ------------------------------------------------------------------ Group
\* the add_* methods class Group defines
GroupMethods == {"add_total"}

\* sum(getattr(record, field) for record in self.records), left to right
\* from 0; heap holds the Record objects and ids the group's references
RECURSIVE SumFrom(_, _, _, _)
SumFrom(heap, ids, field, acc) ==
    IF ids = <<>> THEN Returned(acc)
    ELSE LET record == heap[Head(ids)]
         IN  IF ~hasattr(record, field) THEN Failed(NoAttribute(field))
             ELSE IF ~IsNumber(record[field]) THEN Failed(BadOperand)
             ELSE SumFrom(heap, Tail(ids), field, PyAdd(acc, record[field]))

add_total_all_records(heap, ids, field) ==
    SumFrom(heap, [i \in 1..Len(heap) |-> i], field, Int_(0))

\* Group.add_total
add_total(heap, ids, field) == SumFrom(heap, ids, field, Int_(0))

\* Group.__init__ raising for a missing add_{method}
GroupMissing(method) ==
    Raise("AttributeError",
          <<"Tried to call ", "add_" \o method, ", but that method ghosted us.">>)

\* the loop of Group.__init__ over addons[i..]; attrs are the aggregates set so far
RECURSIVE GroupAddons(_, _, _, _, _)
GroupAddons(heap, ids, addons, i, attrs) ==
    IF i > Len(addons) THEN [ok |-> TRUE, attrs |-> attrs, err |-> NoErr]
    ELSE LET method == addons[i][1]
             field  == addons[i][2]
             method_name == "add_" \o method
         IN  IF method_name \in GroupMethods
             THEN LET total == add_total(heap, ids, field)
                  IN  IF total.ok
                      THEN GroupAddons(heap, ids, addons, i + 1,
                                       setattr(attrs, method \o "_" \o field, total.val))
                      ELSE [ok |-> FALSE, attrs |-> attrs, err |-> total.err]
             ELSE [ok |-> FALSE, attrs |-> attrs, err |-> GroupMissing(method)]

NoAttrs == [a \in {} |-> None]

\* Group(name, records, addons): the object, or the exception __init__ raised
Group(heap, name, ids, addons) ==
    LET r == GroupAddons(heap, ids, addons, 1, NoAttrs)
    IN  [ok |-> r.ok,
         obj |-> [name |-> name, records |-> ids, addons |-> addons, attrs |-> r.attrs],
         err |-> r.err]

\* ------------------------------------------------------------------ Report
\* The report classes: Report and PayoutReport of main.py, BadReport of the
\* tests, and subclasses written the way the Report docstring describes.
ReportClasses ==
    {"Report", "PayoutReport", "BadReport", "CustomReport", "HalfReport", "FakeReport"}

groupby(cls) ==
    IF cls \in {"Report", "BadReport"} THEN "employee_id" ELSE "department"

PayoutAddons == << <<"total", "hours">>, <<"total", "payout">> >>

addons(cls) ==
    CASE cls \in {"Report", "BadReport"} -> <<>>
      [] cls = "FakeReport" -> << <<"fake", "hours">> >>
      [] OTHER -> PayoutAddons

include(cls) ==
    CASE cls = "Report" -> <<"department", "email", "name", "hours", "rate">>
      [] cls = "PayoutReport" -> <<"name", "hours", "rate", "payout">>
      [] cls = "BadReport" -> <<"name", "mystery_field">>
      [] cls = "CustomReport" -> <<"custom_field", "name", "payout">>
      [] cls = "HalfReport" -> <<"payout", "mystery_field", "custom_field">>
      [] cls = "FakeReport" -> <<"name", "hours">>

\* the add_* methods a report class defines or inherits
ReportMethods(cls) ==
    CASE cls \in {"Report", "BadReport"} -> {}
      [] cls \in {"PayoutReport", "FakeReport"} -> {"add_payout"}
      [] OTHER -> {"add_payout", "add_custom_field"}

\* the literal list of Report.add_fields
BuiltIn == {"employee_id", "department", "email", "name", "hours", "rate"}

\* PayoutReport.add_payout
add_payout_rate_only(heap) ==
    [i \in 1..Len(heap) |-> setattr(heap[i], "payout", heap[i]["rate"])]

add_payout_keeps_the_product_in_hours(heap) ==
    [i \in 1..Len(heap) |->
        setattr(setattr(heap[i], "payout", PyMul(heap[i]["hours"], heap[i]["rate"])),
                "hours", PyMul(heap[i]["hours"], heap[i]["rate"]))]

add_payout(heap) ==
    [i \in 1..Len(heap) |->
        setattr(heap[i], "payout", PyMul(heap[i]["hours"], heap[i]["rate"]))]

HeySup == Str(<<"H", "e", "y", "!">>)

\* add_custom_field of the Report docstring
add_custom_field(heap) ==
    [i \in 1..Len(heap) |-> setattr(heap[i], "custom_field", HeySup)]

CallMethod_payout_only(method_name, heap) == add_payout(heap)

\* getattr(self, method_name)(records)
CallMethod(method_name, heap) ==
    CASE method_name = "add_payout" -> add_payout(heap)
      [] method_name = "add_custom_field" -> add_custom_field(heap)

ReportMissing_names_field(field) ==
    Raise("AttributeError",
          <<"'", field, "' is missing and there's no '", field,
            "' method to save the day.">>)

\* the AttributeError of Report.add_fields
ReportMissing(field) ==
    Raise("AttributeError",
          <<"'", field, "' is missing and there's no '", "add_" \o field,
            "' method to save the day.">>)

\* dict key equality: numbers by value, everything else by value and type
KeyEq(a, b) ==
    IF IsNumber(a) /\ IsNumber(b) THEN a.n = b.n /\ a.d = b.d ELSE a = b

Append_front(grouped, key, id) ==
    IF \E k \in 1..Len(grouped) : KeyEq(grouped[k].key, key)
    THEN [k \in 1..Len(grouped) |->
            IF KeyEq(grouped[k].key, key)
            THEN [key |-> grouped[k].key, value |-> <<id>> \o grouped[k].value]
            ELSE grouped[k]]
    ELSE Append(grouped, [key |-> key, value |-> <<id>>])

\* grouped[key].append(id) on the insertion-ordered dict grouped
Append_(grouped, key, id) ==
    IF \E k \in 1..Len(grouped) : KeyEq(grouped[k].key, key)
    THEN [k \in 1..Len(grouped) |->
            IF KeyEq(grouped[k].key, key)
            THEN [key |-> grouped[k].key, value |-> Append(grouped[k].value, id)]
            ELSE grouped[k]]
    ELSE Append(grouped, [key |-> key, value |-> <<id>>])

\* the defaultdict of Report.process after records[1..n]
RECURSIVE Grouped(_, _, _)
Grouped(heap, by, n) ==
    IF n = 0 THEN <<>>
    ELSE Append_(Grouped(heap, by, n - 1), heap[n][by], n)

\* [Group(key, value, self.addons) for key, value in grouped.items()]:
\* the groups, or the first exception a Group raised
RECURSIVE Groups(_, _, _, _)
Groups(heap, grouped, adds, k) ==
    IF k > Len(grouped) THEN [ok |-> TRUE, groups |-> <<>>, err |-> NoErr]
    ELSE LET g == Group(heap, grouped[k].key, grouped[k].value, adds)
         IN  IF ~g.ok THEN [ok |-> FALSE, groups |-> <<>>, err |-> g.err]
             ELSE LET rest == Groups(heap, grouped, adds, k + 1)
                  IN  IF rest.ok
                      THEN [ok |-> TRUE, groups |-> <<g.obj>> \o rest.groups, err |-> NoErr]
                      ELSE rest

\* Report.process
process(heap, cls) == Groups(heap, Grouped(heap, groupby(cls), Len(heap)), addons(cls), 1)

\* Review(groups, fields)
Review_without_fields(groups, fields) == [groups |-> groups, fields |-> <<>>]

Review(groups, fields) == [groups |-> groups, fields |-> fields]

\* ------------------------------------------------------------------ str()
RECURSIVE NatStr(_)
NatStr(n) ==
    IF n < 10 THEN <<Digits[n + 1]>> ELSE NatStr(n \div 10) \o <<Digits[(n % 10) + 1]>>

\* the digits of n, left-padded with zeros to k digits
RECURSIVE ZeroPad(_, _)
ZeroPad(digits, k) == IF Len(digits) >= k THEN digits ELSE ZeroPad(<<"0">> \o digits, k)

Sign(n) == IF n < 0 THEN <<"-">> ELSE <<>>

\* repr of the float n / 10^d (in lowest terms), in the range Python prints
\* without an exponent
FloatStr(n, d) ==
    LET whole == Abs(n) \div Pow10(d)
        frac  == Abs(n) % Pow10(d)
    IN  Sign(n) \o NatStr(whole) \o <<".">>
        \o (IF d = 0 THEN <<"0">> ELSE ZeroPad(NatStr(frac), d))

NoneStr == <<"N", "o", "n", "e">>

\* str(cell)
str(v) ==
    CASE v.t = "str" -> v.s
      [] v.t = "int" -> Sign(v.n) \o NatStr(Abs(v.n))
      [] v.t = "float" -> FloatStr(v.n, v.d)
      [] OTHER -> NoneStr

Lowers == <<"a", "b", "c", "d", "e", "f", "g", "h", "i", "j", "k", "l", "m",
            "n", "o", "p", "q", "r", "s", "t", "u", "v", "w", "x", "y", "z">>
Uppers == <<"A", "B", "C", "D", "E", "F", "G", "H", "I", "J", "K", "L", "M",
            "N", "O", "P", "Q", "R", "S", "T", "U", "V", "W", "X", "Y", "Z">>

upper(c) == IF \E i \in 1..26 : Lowers[i] = c
            THEN Uppers[CHOOSE i \in 1..26 : Lowers[i] = c] ELSE c
lower(c) == IF \E i \in 1..26 : Uppers[i] = c
            THEN Lowers[CHOOSE i \in 1..26 : Uppers[i] = c] ELSE c

\* str.capitalize()
capitalize(chars) ==
    [i \in 1..Len(chars) |-> IF i = 1 THEN upper(chars[i]) ELSE lower(chars[i])]

\* the characters of an attribute name
Chars(field) ==
    CASE field = "employee_id" -> <<"e", "m", "p", "l", "o", "y", "e", "e", "_", "i", "d">>
      [] field = "department" -> <<"d", "e", "p", "a", "r", "t", "m", "e", "n", "t">>
      [] field = "email" -> <<"e", "m", "a", "i", "l">>
      [] field = "name" -> <<"n", "a", "m", "e">>
      [] field = "hours" -> <<"h", "o", "u", "r", "s">>
      [] field = "rate" -> <<"r", "a", "t", "e">>
      [] field = "payout" -> <<"p", "a", "y", "o", "u", "t">>
      [] field = "custom_field" ->
            <<"c", "u", "s", "t", "o", "m", "_", "f", "i", "e", "l", "d">>
      [] field = "mystery_field" ->
            <<"m", "y", "s", "t", "e", "r", "y", "_", "f", "i", "e", "l", "d">>

\* str.ljust(width)
RECURSIVE ljust(_, _)
ljust(chars, width) == IF Len(chars) >= width THEN chars ELSE ljust(chars \o <<" ">>, width)

\* sep.join(parts) on character sequences
RECURSIVE join(_, _)
join(sep, parts) ==
    IF parts = <<>> THEN <<>>
    ELSE IF Len(parts) = 1 THEN parts[1]
    ELSE parts[1] \o sep \o join(sep, Tail(parts))

\* ------------------------------------------------------------------ Formatter
Blank == Str(<<>>)

\* list.index(x): 0 stands for ValueError
RECURSIVE IndexFrom(_, _, _)
IndexFrom(list, x, i) ==
    IF i > Len(list) THEN 0 ELSE IF list[i] = x THEN i ELSE IndexFrom(list, x, i + 1)

index(list, x) == IndexFrom(list, x, 1)

NotInList(x) == Raise("ValueError", <<"'", x, "' is not in list">>)

\* an insertion-ordered dict as the sequence of its items: d[key] = value
DictSet(d, key, value) ==
    IF \E k \in 1..Len(d) : d[k].key = key
    THEN [k \in 1..Len(d) |-> IF d[k].key = key THEN [key |-> key, value |-> value] ELSE d[k]]
    ELSE Append(d, [key |-> key, value |-> value])

DictHas(d, key) == \E k \in 1..Len(d) : d[k].key = key
DictGet(d, key) == d[CHOOSE k \in 1..Len(d) : d[k].key = key].value

\* [getattr(record, field) for field in fields[i..]]
RECURSIVE RecordCells(_, _, _)
RecordCells(record, fields, i) ==
    IF i > Len(fields) THEN [ok |-> TRUE, cells |-> <<>>, err |-> NoErr]
    ELSE IF ~hasattr(record, fields[i])
         THEN [ok |-> FALSE, cells |-> <<>>, err |-> NoAttribute(fields[i])]
    ELSE LET rest == RecordCells(record, fields, i + 1)
         IN  IF rest.ok
             THEN [ok |-> TRUE, cells |-> <<record[fields[i]]>> \o rest.cells, err |-> NoErr]
             ELSE rest

\* the rows of the records ids[j..] of one group
RECURSIVE RecordRows(_, _, _, _)
RecordRows(heap, ids, fields, j) ==
    IF j > Len(ids) THEN [ok |-> TRUE, rows |-> <<>>, err |-> NoErr]
    ELSE LET row == RecordCells(heap[ids[j]], fields, 1)
         IN  IF ~row.ok THEN [ok |-> FALSE, rows |-> <<>>, err |-> row.err]
             ELSE LET rest == RecordRows(heap, ids, fields, j + 1)
                  IN  IF rest.ok
                      THEN [ok |-> TRUE, rows |-> << <<Blank>> \o row.cells >> \o rest.rows,
                            err |-> NoErr]
                      ELSE rest

\* {fields.index(addon[1]): getattr(group, "_".join(addon)) for addon in addons[i..]}
\* added to the dict d
RECURSIVE AddonColumns(_, _, _, _)
AddonColumns(group, fields, i, d) ==
    IF i > Len(group.addons) THEN [ok |-> TRUE, d |-> d, err |-> NoErr]
    ELSE LET addon == group.addons[i]
             at == index(fields, addon[2])
         IN  IF at = 0 THEN [ok |-> FALSE, d |-> d, err |-> NotInList(addon[2])]
             ELSE AddonColumns(group, fields, i + 1,
                               DictSet(d, at, group.attrs[addon[1] \o "_" \o addon[2]]))

\* the rows Formatter.console appends for the groups k.. of the review
RECURSIVE GroupRows(_, _, _)
GroupRows(heap, review, k) ==
    IF k > Len(review.groups) THEN [ok |-> TRUE, rows |-> <<>>, err |-> NoErr]
    ELSE LET group == review.groups[k]
             n == Len(review.fields)
             title == <<group.name>> \o [i \in 1..n |-> Blank]
             recs == RecordRows(heap, group.records, review.fields, 1)
             cols == AddonColumns(group, review.fields, 1, <<>>)
             totals == <<Blank>> \o
                       [i \in 1..n |-> IF DictHas(cols.d, i) THEN DictGet(cols.d, i) ELSE Blank]
         IN  IF ~recs.ok THEN recs
             ELSE IF ~cols.ok THEN [ok |-> FALSE, rows |-> <<>>, err |-> cols.err]
             ELSE LET rest == GroupRows(heap, review, k + 1)
                  IN  IF rest.ok
                      THEN [ok |-> TRUE,
                            rows |-> <<title>> \o recs.rows \o <<totals>> \o rest.rows,
                            err |-> NoErr]
                      ELSE rest

\* the header row of Formatter.console
Header(fields) ==
    <<Blank>> \o [i \in 1..Len(fields) |-> Str(capitalize(Chars(fields[i])))]

\* the rows of Formatter.console before alignment
console_rows(heap, review) ==
    LET body == GroupRows(heap, review, 1)
    IN  IF body.ok
        THEN [ok |-> TRUE, rows |-> <<Header(review.fields)>> \o body.rows, err |-> NoErr]
        ELSE body

RECURSIVE MaxOf(_)
MaxOf(ns) == IF Len(ns) = 1 THEN ns[1] ELSE Max(ns[1], MaxOf(Tail(ns)))

\* widths = [max(len(str(cell)) for cell in column) for column in zip(*rows)]
widths(rows) ==
    [c \in 1..Len(rows[1]) |-> MaxOf([r \in 1..Len(rows) |-> Len(str(rows[r][c]))])]

Sep == <<" ", " ", " ">>
Newline == <<"\n">>

\* lines and the joined text of Formatter.console
lines(rows) ==
    LET w == widths(rows)
    IN  [r \in 1..Len(rows) |->
            join(Sep, [c \in 1..Len(rows[r]) |-> ljust(str(rows[r][c]), w[c])])]

console_ends_with_newline(heap, review) ==
    LET r == console_rows(heap, review)
    IN  [ok |-> r.ok,
         rows |-> r.rows,
         text |-> IF r.ok THEN join(Newline, lines(r.rows)) \o Newline ELSE <<>>,
         err |-> r.err]

\* Formatter.console: the rows, the text returned, or the exception raised
console(heap, review) ==
    LET r == console_rows(heap, review)
    IN  [ok |-> r.ok,
         rows |-> r.rows,
         text |-> IF r.ok THEN join(Newline, lines(r.rows)) ELSE <<>>,
         err |-> r.err]

RECURSIVE format_record_reversed(_, _, _)
format_record_reversed(record, fields, n) ==
    IF n = 0 THEN [ok |-> TRUE, d |-> <<>>, err |-> NoErr]
    ELSE LET before == format_record_reversed(record, fields, n - 1)
             f == fields[Len(fields) + 1 - n]
         IN  IF ~before.ok THEN before
             ELSE IF ~hasattr(record, f)
             THEN [ok |-> FALSE, d |-> <<>>, err |-> NoAttribute(f)]
             ELSE [ok |-> TRUE, d |-> Append(before.d, [key |-> f, value |-> record[f]]),
                   err |-> NoErr]

\* format_record of Formatter.jsonfile: the dict over fields[1..n]
RECURSIVE format_record(_, _, _)
format_record(record, fields, n) ==
    IF n = 0 THEN [ok |-> TRUE, d |-> <<>>, err |-> NoErr]
    ELSE LET before == format_record(record, fields, n - 1)
         IN  IF ~before.ok THEN before
             ELSE IF ~hasattr(record, fields[n])
             THEN [ok |-> FALSE, d |-> <<>>, err |-> NoAttribute(fields[n])]
             ELSE [ok |-> TRUE, d |-> DictSet(before.d, fields[n], record[fields[n]]),
                   err |-> NoErr]

\* [format_record(record) for record in ids[j..]]
RECURSIVE FormatRecords(_, _, _, _)
FormatRecords(heap, ids, fields, j) ==
    IF j > Len(ids) THEN [ok |-> TRUE, list |-> <<>>, err |-> NoErr]
    ELSE LET one == format_record(heap[ids[j]], fields, Len(fields))
         IN  IF ~one.ok THEN [ok |-> FALSE, list |-> <<>>, err |-> one.err]
             ELSE LET rest == FormatRecords(heap, ids, fields, j + 1)
                  IN  IF rest.ok
                      THEN [ok |-> TRUE, list |-> <<one.d>> \o rest.list, err |-> NoErr]
                      ELSE rest

\* {"_".join(addon): getattr(group, "_".join(addon)) for addon in addons[1..n]}
RECURSIVE AddonDict(_, _)
AddonDict(group, n) ==
    IF n = 0 THEN <<>>
    ELSE LET name == group.addons[n][1] \o "_" \o group.addons[n][2]
         IN  DictSet(AddonDict(group, n - 1), name, group.attrs[name])

\* the loop of Formatter.jsonfile over the groups 1..k
RECURSIVE Formatted(_, _, _)
Formatted(heap, review, k) ==
    IF k = 0 THEN [ok |-> TRUE, d |-> <<>>, err |-> NoErr]
    ELSE LET before == Formatted(heap, review, k - 1)
             group == review.groups[k]
             recs == FormatRecords(heap, group.records, review.fields, 1)
         IN  IF ~before.ok THEN before
             ELSE IF ~recs.ok THEN [ok |-> FALSE, d |-> <<>>, err |-> recs.err]
             ELSE [ok |-> TRUE,
                   d |-> DictSet(before.d, group.name,
                                 [records |-> recs.list,
                                  addons |-> AddonDict(group, Len(group.addons))]),
                   err |-> NoErr]

\* Formatter.jsonfile: the dict returned, or the exception raised
jsonfile(heap, review) == Formatted(heap, review, Len(review.groups))

\* ------------------------------------------------------------------ inputs
HR == Str(<<"H", "R">>)
Fin == Str(<<"F", "i", "n">>)

\* raw rows: the three of tests/test_reports.py (numbers given as ints) and
\* one as load_records reads it from a file (every value a string)
SampleRows ==
    { <<Int_(1), HR, Str(<<"a", "@", "x">>), Str(<<"A", "n", "n", "a">>), Int_(10), Int_(50)>>,
      <<Int_(2), HR, Str(<<"b", "@", "x">>), Str(<<"B", "e", "n">>), Int_(5), Int_(40)>>,
      <<Int_(3), Fin, Str(<<"c", "@", "x">>), Str(<<"C", "a", "r", "l">>), Int_(20), Int_(100)>>,
      <<Str(<<"x", "9">>), Fin, Str(<<"d", "@", "x">>), Str(<<"D", "a", "n">>),
        Str(<<"7", ".", "5">>), Str(<<"4", "0">>)>> }

RowLists == UNION {[1..n -> SampleRows] : n \in 0..MaxRecords}

MkRecord(row) == Record(row[1], row[2], row[3], row[4], row[5], row[6])

MkRecords(rows) == [i \in 1..Len(rows) |-> MkRecord(rows[i])]

\* ------------------------------------------------------------------ create
NoGroup == [ok |-> FALSE, obj |-> [name |-> None, records |-> <<>>, addons |-> <<>>,
                                  attrs |-> NoAttrs], err |-> NoErr]
NoOut == [k |-> 0, ok |-> FALSE, rows |-> <<>>, text |-> <<>>, err |-> NoErr]
NoDoc == [k |-> 0, ok |-> FALSE, d |-> <<>>, err |-> NoErr]
NoRow == <<>>
NoRecord == [f \in {} |-> None]
NoArgs == [files |-> <<>>, report |-> "", silent |-> FALSE, output |-> None, format |-> ""]
NoSaver == [filepath |-> <<>>, save |-> ""]
NoFiles == [f \in {} |-> <<>>]

\* nothing has been called yet
Fresh ==
    /\ pc = "idle"
    /\ report = "Report"
    /\ idx = 0
    /\ calls = <<>>
    /\ reviews = <<>>
    /\ raised = NoErr
    /\ ncreate = 0
    /\ built = NoGroup
    /\ out = NoOut
    /\ doc = NoDoc
    /\ made = NoRecord

\* main() is not running
NoMain ==
    /\ args = NoArgs
    /\ mainpc = "off"
    /\ events = <<>>
    /\ saver = NoSaver
    /\ disk = <<>>
    /\ fs = NoFiles

Init ==
    /\ records \in {MkRecords(rows) : rows \in RowLists}
    /\ rawrow = NoRow
    /\ Fresh
    /\ NoMain

\* report.create(records) is entered: add_fields starts at the head of include
Enter(c) ==
    /\ pc = "idle"
    /\ ncreate' = ncreate + 1
    /\ report' = c
    /\ idx' = 1
    /\ calls' = <<>>
    /\ raised' = NoErr
    /\ pc' = IF include(c) = <<>> THEN "process" ELSE "add_fields"
    /\ out' = NoOut
    /\ doc' = NoDoc
    /\ UNCHANGED <<records, reviews, built, normVars>>

\* a caller other than main() calls c().create(records)
Create(c) ==
    /\ ncreate < MaxCreates
    /\ Enter(c)
    /\ UNCHANGED mainVars

\* where add_fields goes after the field at position i
AfterField(i) == IF i >= Len(include(report)) THEN "process" ELSE "add_fields"

\* one iteration of the loop of Report.add_fields
AddField ==
    /\ pc = "add_fields"
    /\ LET field == include(report)[idx]
           method_name == "add_" \o field
       IN  IF field \in BuiltIn
           THEN /\ idx' = idx + 1
                /\ pc' = AfterField(idx)
                /\ UNCHANGED <<records, calls, raised>>
           ELSE IF method_name \in ReportMethods(report)
           THEN /\ records' = CallMethod(method_name, records)
                /\ calls' = Append(calls, [method |-> method_name,
                                           nrecords |-> Len(records)])
                /\ idx' = idx + 1
                /\ pc' = AfterField(idx)
                /\ UNCHANGED raised
           ELSE /\ raised' = ReportMissing(field)
                /\ pc' = "idle"
                /\ UNCHANGED <<records, calls, idx>>
    /\ UNCHANGED <<report, reviews, ncreate, built, fmtVars, normVars, mainVars>>

\* self.process(records), then Review(groups=groups, fields=self.include)
Process ==
    /\ pc = "process"
    /\ LET r == process(records, report)
       IN  IF r.ok
           THEN /\ reviews' = Append(reviews, Review(r.groups, include(report)))
                /\ UNCHANGED raised
           ELSE /\ raised' = r.err
                /\ UNCHANGED reviews
    /\ pc' = "idle"
    /\ UNCHANGED <<records, report, idx, calls, ncreate, built, fmtVars, normVars, mainVars>>

Next ==
    \/ \E c \in ReportClasses : Create(c)
    \/ AddField
    \/ Process

Spec == Init /\ [][Next]_vars

\* ------------------------------------------------------------------ renderers
\* Formatter().console(review) on the Review create has just returned
Console ==
    /\ pc = "idle"
    /\ reviews # <<>>
    /\ out' = [k |-> Len(reviews)] @@ console(records, reviews[Len(reviews)])
    /\ UNCHANGED <<pipeVars, built, doc, normVars, mainVars>>

\* Formatter().jsonfile(review) on the Review create has just returned
JsonFile ==
    /\ pc = "idle"
    /\ reviews # <<>>
    /\ doc' = [k |-> Len(reviews)] @@ jsonfile(records, reviews[Len(reviews)])
    /\ UNCHANGED <<pipeVars, built, out, normVars, mainVars>>

NextFmt ==
    \/ Next
    \/ Console
    \/ JsonFile

SpecFmt == Init /\ [][NextFmt]_vars

\* ------------------------------------------------------------------ Group(...)
\* the increasing sequence of the members of a set of positions
RECURSIVE Sorted(_)
Sorted(S) ==
    IF S = {} THEN <<>>
    ELSE LET m == CHOOSE x \in S : \A y \in S : x <= y
         IN  <<m>> \o Sorted(S \ {m})

\* the aggregate requests of main.py and of tests/test_groups.py, and one on
\* a text field
AddonChoices ==
    { <<>>, << <<"total", "hours">> >>, << <<"total", "rate">> >>, PayoutAddons,
      << <<"fake", "hours">> >>, << <<"total", "name">>, <<"total", "rate">> >> }

Ops == Str(<<"O", "p", "s">>)

\* a caller builds Group(name, some of the records, addons) directly
NewGroup(name, ids, adds) ==
    /\ built = NoGroup
    /\ built' = Group(records, name, ids, adds)
    /\ UNCHANGED <<pipeVars, fmtVars, normVars, mainVars>>

NextGroup ==
    \E name \in {HR, Ops} : \E S \in SUBSET (1..Len(records)) : \E adds \in AddonChoices :
        NewGroup(name, Sorted(S), adds)

SpecGroup == Init /\ [][NextGroup]_vars

\* ------------------------------------------------------------------ Record(...)
RawChars == {"0", "1", "5", ".", "-", " ", "x"}

\* raw values: every string over RawChars up to MaxRawLen, and numbers given
\* as numbers
RawValues ==
    {Str(chars) : chars \in UNION {[1..n -> RawChars] : n \in 0..MaxRawLen}}
    \cup {Int_(0), Int_(40), Float_(55, 1)}

\* rows with one raw value under test in the identifier, hours or rate
RawRows ==
    {<<v, HR, Str(<<"a", "@", "x">>), Str(<<"A", "n", "n", "a">>), Int_(10), Int_(50)>> :
        v \in RawValues}
    \cup {<<Int_(1), HR, Str(<<"a", "@", "x">>), Str(<<"A", "n", "n", "a">>), v, Int_(50)>> :
        v \in RawValues}
    \cup {<<Int_(1), HR, Str(<<"a", "@", "x">>), Str(<<"A", "n", "n", "a">>), Int_(10), v>> :
        v \in RawValues}

InitNorm ==
    /\ records = <<>>
    /\ rawrow \in RawRows
    /\ Fresh
    /\ NoMain

\* Record(*rawrow)
Construct ==
    /\ made = NoRecord
    /\ made' = MkRecord(rawrow)
    /\ UNCHANGED <<pipeVars, built, fmtVars, rawrow, mainVars>>

NextNorm == Construct

SpecNorm == InitNorm /\ [][NextNorm]_vars

\* ------------------------------------------------------------------ files
\* str.split(sep): the pieces of s between the occurrences of sep
Cuts(s, sep) == {i \in 1..Len(s) : s[i] = sep}

Cut(s, sep, k) ==
    IF k = 0 THEN 0
    ELSE IF k > Cardinality(Cuts(s, sep)) THEN Len(s) + 1
    ELSE CHOOSE i \in Cuts(s, sep) : Cardinality({j \in Cuts(s, sep) : j <= i}) = k

split(s, sep) ==
    [k \in 1..(Cardinality(Cuts(s, sep)) + 1) |->
        SubSeq(s, Cut(s, sep, k - 1) + 1, Cut(s, sep, k) - 1)]

columns ==
    << <<"i", "d">>, <<"d", "e", "p", "a", "r", "t", "m", "e", "n", "t">>,
       <<"e", "m", "a", "i", "l">>, <<"n", "a", "m", "e">>,
       <<"h", "o", "u", "r", "s", "_", "w", "o", "r", "k", "e", "d">>,
       <<"h", "o", "u", "r", "l", "y", "_", "r", "a", "t", "e">>,
       <<"r", "a", "t", "e">>, <<"s", "a", "l", "a", "r", "y">> >>

Min(a, b) == IF a < b THEN a ELSE b

\* a line of text: its cells joined by commas, and the line end
TextLine(cells) == join(<<",">>, cells) \o Newline

SampleHeader == TextLine(SubSeq(columns, 1, 6))

\* the data rows of the sample files
Anna == TextLine(<<<<"1">>, <<"H", "R">>, <<"a", "@", "x">>,
                 <<"A", "n", "n", "a">>, <<"1", "0">>, <<"5", "0">>>>)
Ben == TextLine(<<<<"2">>, <<"H", "R">>, <<"b", "@", "x">>, <<"B", "e", "n">>, <<"5">>, <<"4", "0">>>>)
Carl == TextLine(<<<<"3">>, <<"F", "i", "n">>, <<"c", "@", "x">>,
                 <<"C", "a", "r", "l">>, <<"7", ".", "5">>, <<"1", "0", "0">>>>)

\* the files a main() run can name: the columns in the documented order, a
\* header alone, no line at all, the text of tests/test_cli.py that is no
\* record file, a header in another order that names rate, and a header
\* that lacks two columns
FileSystem ==
    [ sample |-> <<SampleHeader, Anna, Ben, Carl>>,
      one |-> <<SampleHeader, Carl>>,
      header |-> <<SampleHeader>>,
      empty |-> <<>>,
      bad |-> << TextLine(<<<<"c", "o", "m", "p", "l", "e", "t", "e", "l", "y">>,
                            <<"i", "n", "v", "a", "l", "i", "d">>, <<"c", "s", "v">>>>),
                 <<"o", "n", "e", ",", "l", "i", "n", "e", ",", "o", "n", "l", "y">> >>,
      shuffled |-> << TextLine(<<columns[4], columns[1], columns[7], columns[2], columns[5],
                                 columns[3]>>),
                      TextLine(<<<<"D", "a", "n">>, <<"4">>, <<"4", "0">>, <<"F", "i", "n">>, <<"2">>, <<"d", "@", "x">>>>) >>,
      short |-> << TextLine(SubSeq(columns, 1, 4)),
                   TextLine(<<<<"5">>, <<"H", "R">>, <<"e", "@", "x">>, <<"E", "v", "e">>>>) >> ]

\* [line.strip().split(",") for line in file]
ReadLines(file) == [i \in 1..Len(file) |-> split(Strip(file[i]), ",")]

FileLists ==
    { <<"sample">>, <<"one">>, <<"header">>, <<"empty">>, <<"bad">>, <<"shuffled">>,
      <<"short">>, <<"missing">>, <<"one", "sample">>, <<"sample", "bad">> }

\* ------------------------------------------------------------------ load_records
\* columns.index(column) on a name that columns does not hold
UnknownColumn(column) == Raise("ValueError", <<"'">> \o column \o <<"' is not in list">>)

\* order.index(i) on a position no header column maps to
NotInOrder(i) == Raise("ValueError", <<ToString(i), " is not in list">>)

\* data[k] past the end of a row, lines[0] of an empty file
IndexError == Raise("IndexError", <<"list index out of range">>)

\* Record(*cells) with fewer than six cells
WrongArity == Raise("TypeError", <<"Record.__init__() missing required positional arguments">>)

\* open() on a path that names no file
FileNotFound == Raise("FileNotFoundError", <<"No such file or directory">>)

Lowest(S) == CHOOSE i \in S : \A j \in S : i <= j

\* the places of the header whose name columns does not hold
Unknown(header) == {n \in 1..Len(header) : index(columns, header[n]) = 0}

Order_unclamped(header) == [n \in 1..Len(header) |-> index(columns, header[n]) - 1]

\* order = [min(columns.index(column), 5) for column in header], positions from 0
Order(header) == [n \in 1..Len(header) |-> Min(index(columns, header[n]) - 1, 5)]

\* the i of range(len(order)) for which data[order.index(i)] raises
BadArgs(data, order) ==
    {i \in 0..(Len(order) - 1) : index(order, i) = 0 \/ index(order, i) > Len(data)}

\* what Record(*(data[order.index(i)] for i in range(len(order)))) raises
RowError(data, order) ==
    IF BadArgs(data, order) = {}
    THEN IF Len(order) = 6 THEN NoErr ELSE WrongArity
    ELSE LET i == Lowest(BadArgs(data, order))
         IN  IF index(order, i) = 0 THEN NotInOrder(i) ELSE IndexError

\* the Record built from a row: argument i is the cell of the first header
\* column mapped to position i
RowRecord(data, order) ==
    MkRecord([i \in 1..6 |-> Str(data[index(order, i - 1)])])

LoadFailed(err) == [ok |-> FALSE, records |-> <<>>, err |-> err]

\* load_records(filepath) on the files there are: the list of Records, or the
\* exception re-raised
load_records(files, filepath) ==
    IF filepath \notin DOMAIN files THEN LoadFailed(FileNotFound)
    ELSE LET lines_ == ReadLines(files[filepath])
         IN  IF lines_ = <<>> THEN LoadFailed(IndexError)
             ELSE IF Unknown(lines_[1]) # {}
             THEN LoadFailed(UnknownColumn(lines_[1][Lowest(Unknown(lines_[1]))]))
             ELSE LET order == Order(lines_[1])
                      failing == {n \in 2..Len(lines_) : RowError(lines_[n], order) # NoErr}
                  IN  IF failing # {}
                      THEN LoadFailed(RowError(lines_[Lowest(failing)], order))
                      ELSE [ok |-> TRUE,
                            records |-> [n \in 1..(Len(lines_) - 1) |->
                                            RowRecord(lines_[n + 1], order)],
                            err |-> NoErr]

\* [record for file in paths[..n] for record in load_records(file)]
Extend(before, r) ==
    IF ~before.ok THEN before
    ELSE IF ~r.ok THEN r
    ELSE [ok |-> TRUE, records |-> before.records \o r.records, err |-> NoErr]

RECURSIVE LoadAll(_, _, _)
LoadAll(files, paths, n) ==
    IF n = 0 THEN [ok |-> TRUE, records |-> <<>>, err |-> NoErr]
    ELSE Extend(LoadAll(files, paths, n - 1), load_records(files, paths[n]))

\* ------------------------------------------------------------------ SaveToFile
\* the save_as_* methods class SaveToFile defines
SaveMethods == {"save_as_json", "save_as_text"}

ForbiddenMagic(fileformat) ==
    Raise("AttributeError", <<"Saving as '", fileformat,
                              "'? Forbidden magic. That format is not in the spellbook.">>)

\* SaveToFile(filepath, fileformat): binds self.save or raises
SaveToFile_binds_json(filepath, fileformat) ==
    LET method_name == "save_as_" \o fileformat
    IN  IF method_name \in SaveMethods
        THEN [ok |-> TRUE, obj |-> [filepath |-> filepath, save |-> method_name],
              err |-> NoErr]
        ELSE [ok |-> TRUE, obj |-> [filepath |-> filepath, save |-> "save_as_json"],
              err |-> NoErr]

SaveToFile(filepath, fileformat) ==
    LET method_name == "save_as_" \o fileformat
    IN  IF method_name \in SaveMethods
        THEN [ok |-> TRUE, obj |-> [filepath |-> filepath, save |-> method_name],
              err |-> NoErr]
        ELSE [ok |-> FALSE, obj |-> NoSaver, err |-> ForbiddenMagic(fileformat)]

endswith(s, suffix) ==
    /\ Len(s) >= Len(suffix)
    /\ SubSeq(s, Len(s) - Len(suffix) + 1, Len(s)) = suffix

DotJson == <<".", "j", "s", "o", "n">>
DotTxt == <<".", "t", "x", "t">>

\* self.filepath += ext if not self.filepath.endswith(ext) else ""
WithExtension(filepath, ext) == IF endswith(filepath, ext) THEN filepath ELSE filepath \o ext

\* a written file: its path and what was written, a text or a document
TextFile(path, text) == [path |-> path, kind |-> "text", text |-> text, d |-> <<>>]
JsonFileOf(path, d) == [path |-> path, kind |-> "json", text |-> <<>>, d |-> d]

\* ------------------------------------------------------------------ main()
reports_map == [payout |-> "PayoutReport"]

\* reports_map.get(name)
get(map, name) == IF name \in DOMAIN map THEN map[name] ELSE "None"

\* bool(value)
Truthy(v) ==
    CASE v.t = "none" -> FALSE
      [] v.t = "str" -> v.s # <<>>
      [] OTHER -> v.n # 0

UnknownReport(name) ==
    Raise("SystemExit", <<"Unknown report type '", name, "'. Try one of: payout. Or don't.">>)

\* the command lines of the main() runs
ArgSets ==
    [ files : FileLists,
      report : {"payout", "bonus"},
      silent : BOOLEAN,
      output : {None, Str(<<>>), Str(<<"o", "u", "t">>), Str(<<"r">> \o DotTxt)},
      format : {"json", "text", "xml"} ]

InitMain ==
    /\ records = <<>>
    /\ rawrow = NoRow
    /\ Fresh
    /\ args \in ArgSets
    /\ mainpc = "load"
    /\ events = <<>>
    /\ saver = NoSaver
    /\ disk = <<>>
    /\ fs = FileSystem

\* main() ends with an exception
Abort(err) ==
    /\ raised' = err
    /\ mainpc' = "done"

\* records = [record for file in args.files for record in load_records(file)]
MainLoad ==
    /\ mainpc = "load"
    /\ \E r \in {LoadAll(fs, args.files, Len(args.files))} :
           IF r.ok
           THEN /\ records' = r.records
                /\ mainpc' = "lookup"
                /\ events' = Append(events, "loaded")
                /\ UNCHANGED raised
           ELSE /\ Abort(r.err)
                /\ events' = Append(events, "failed to load")
                /\ UNCHANGED records
    /\ UNCHANGED <<pc, report, idx, calls, reviews, ncreate, built, fmtVars, normVars,
                   args, saver, disk, fs>>

\* report = reports_map.get(args.report), exit(...) when there is none
MainLookup ==
    /\ mainpc = "lookup"
    /\ IF get(reports_map, args.report) = "None"
       THEN /\ Abort(UnknownReport(args.report))
            /\ events' = Append(events, "exit")
       ELSE /\ mainpc' = "create"
            /\ UNCHANGED <<raised, events>>
    /\ UNCHANGED <<records, pc, report, idx, calls, reviews, ncreate, built, fmtVars,
                   normVars, args, saver, disk, fs>>

\* review = report().create(records) is entered
MainCreate ==
    /\ mainpc = "create"
    /\ Enter(get(reports_map, args.report))
    /\ mainpc' = "echo"
    /\ events' = Append(events, "create")
    /\ UNCHANGED <<args, saver, disk, fs>>

\* if not args.silent: print(Formatter().console(review))
MainEcho ==
    /\ mainpc = "echo"
    /\ pc = "idle"
    /\ IF raised # NoErr
       THEN /\ mainpc' = "done"
            /\ UNCHANGED <<raised, events, out>>
       ELSE IF args.silent
       THEN /\ mainpc' = "bind"
            /\ UNCHANGED <<raised, events, out>>
       ELSE \E r \in {console(records, reviews[Len(reviews)])} :
                /\ out' = [k |-> Len(reviews)] @@ r
                /\ IF r.ok
                   THEN /\ events' = events \o <<"console", "print">>
                        /\ mainpc' = "bind"
                        /\ UNCHANGED raised
                   ELSE /\ events' = Append(events, "console")
                        /\ Abort(r.err)
    /\ UNCHANGED <<records, pc, report, idx, calls, reviews, ncreate, built, doc, normVars,
                   args, saver, disk, fs>>

\* if args.output: SaveToFile(args.output, args.format)
MainBind ==
    /\ mainpc = "bind"
    /\ IF ~Truthy(args.output)
       THEN /\ mainpc' = "warn"
            /\ UNCHANGED <<raised, events, saver>>
       ELSE \E s \in {SaveToFile(args.output.s, args.format)} :
                /\ events' = Append(events, "bind")
                /\ IF s.ok
                   THEN /\ saver' = s.obj
                        /\ mainpc' = "save"
                        /\ UNCHANGED raised
                   ELSE /\ Abort(s.err)
                        /\ UNCHANGED saver
    /\ UNCHANGED <<records, pc, report, idx, calls, reviews, ncreate, built, fmtVars,
                   normVars, args, disk, fs>>

\* .save(review): save_as_json or save_as_text, whichever was bound
MainSave ==
    /\ mainpc = "save"
    /\ IF saver.save = "save_as_json"
       THEN \E filepath \in {WithExtension(saver.filepath, DotJson)} :
            \E formatted \in {jsonfile(records, reviews[Len(reviews)])} :
                /\ saver' = [saver EXCEPT !.filepath = filepath]
                /\ doc' = [k |-> Len(reviews)] @@ formatted
                /\ IF formatted.ok
                   THEN /\ disk' = Append(disk, JsonFileOf(filepath, formatted.d))
                        /\ events' = events \o <<"jsonfile", "write", "respond">>
                        /\ mainpc' = "warn"
                        /\ UNCHANGED raised
                   ELSE /\ events' = Append(events, "jsonfile")
                        /\ Abort(formatted.err)
                        /\ UNCHANGED disk
                /\ UNCHANGED out
       ELSE \E filepath \in {WithExtension(saver.filepath, DotTxt)} :
            \E formatted \in {console(records, reviews[Len(reviews)])} :
                /\ saver' = [saver EXCEPT !.filepath = filepath]
                /\ out' = [k |-> Len(reviews)] @@ formatted
                /\ IF formatted.ok
                   THEN /\ disk' = Append(disk, TextFile(filepath, formatted.text))
                        /\ events' = events \o <<"console", "write", "respond">>
                        /\ mainpc' = "warn"
                        /\ UNCHANGED raised
                   ELSE /\ events' = Append(events, "console")
                        /\ Abort(formatted.err)
                        /\ UNCHANGED disk
                /\ UNCHANGED doc
    /\ UNCHANGED <<records, pc, report, idx, calls, reviews, ncreate, built, normVars, args,
                   fs>>

\* if args.silent and not args.output: print the warning
MainWarn ==
    /\ mainpc = "warn"
    /\ events' = IF args.silent /\ ~Truthy(args.output) THEN Append(events, "warn")
                 ELSE events
    /\ mainpc' = "done"
    /\ UNCHANGED <<pipeVars, built, fmtVars, normVars, args, saver, disk, fs>>

NextMain ==
    \/ MainLoad
    \/ MainLookup
    \/ MainCreate
    \/ AddField
    \/ Process
    \/ MainEcho
    \/ MainBind
    \/ MainSave
    \/ MainWarn

SpecMain == InitMain /\ [][NextMain]_vars

\* ------------------------------------------------------------------ load_records(...)
\* a column name that columns does not hold
Bonus == <<"b", "o", "n", "u", "s">>

\* the names headers are made of, and the cell a data row has under each
HeaderPool == columns \o <<Bonus>>

PoolCells ==
    << <<"7">>, <<"H", "R">>, <<"a", "@", "x">>, <<"A", "n", "n", "a">>, <<"1", "0">>,
       <<"5", "0">>, <<"6", "0">>, <<"7", "0">>, <<"9">> >>

Reverse(s) == [i \in 1..Len(s) |-> s[Len(s) + 1 - i]]

\* the places of the pool a header takes, in the pool's order or backwards
Places_(S, backwards) == IF backwards THEN Reverse(Sorted(S)) ELSE Sorted(S)

\* the text of a file: a header with the names at the places given, and n
\* data rows with a cell for every header column
CsvFile(places, n) ==
    <<TextLine([k \in 1..Len(places) |-> HeaderPool[places[k]]])>>
    \o [r \in 1..n |-> TextLine([k \in 1..Len(places) |-> PoolCells[places[k]]])]

CsvFiles ==
    {CsvFile(Places_(S, backwards), n) :
        S \in SUBSET (1..Len(HeaderPool)), backwards \in BOOLEAN, n \in 0..MaxDataRows}

InitLoad ==
    /\ records = <<>>
    /\ rawrow = NoRow
    /\ Fresh
    /\ args = NoArgs
    /\ mainpc = "call"
    /\ events = <<>>
    /\ saver = NoSaver
    /\ disk = <<>>
    /\ fs \in {[data |-> file] : file \in CsvFiles}

\* load_records("data"), called on its own
CallLoad ==
    /\ mainpc = "call"
    /\ \E r \in {load_records(fs, "data")} :
           IF r.ok
           THEN /\ records' = r.records
                /\ mainpc' = "returned"
                /\ UNCHANGED <<raised, events>>
           ELSE /\ raised' = r.err
                /\ mainpc' = "raised"
                /\ events' = Append(events, "failed to load")
                /\ UNCHANGED records
    /\ UNCHANGED <<pc, report, idx, calls, reviews, ncreate, built, fmtVars, normVars,
                   args, saver, disk, fs>>

NextLoad == CallLoad

SpecLoad == InitLoad /\ [][NextLoad]_vars

\* ================================================================== claims
\* two Python numbers denote the same rational
SameNumber(a, b) == a.n * Pow10(b.d) = b.n * Pow10(a.d)

\* the create call last entered has returned a Review
Returned_ == pc = "idle" /\ ncreate > 0 /\ raised = NoErr

LastReview == reviews[Len(reviews)]

\* the places <<g, j>> at which a Review holds the record at position i
Places(rv, i) ==
    {gj \in {<<g, j>> : g \in 1..Len(rv.groups), j \in 1..Len(records)} :
        /\ gj[2] <= Len(rv.groups[gj[1]].records)
        /\ rv.groups[gj[1]].records[gj[2]] = i}

\* the Groups of rv partition the records by the attribute `by`, in the
\* input's order
Partitions(rv, by) ==
    /\ \A i \in 1..Len(records) : Cardinality(Places(rv, i)) = 1
    /\ \A g \in 1..Len(rv.groups) :
        LET ids == rv.groups[g].records
        IN  /\ ids # <<>>
            /\ \A j \in 1..Len(ids) :
                /\ ids[j] \in 1..Len(records)
                /\ records[ids[j]][by] = rv.groups[g].name
                /\ j > 1 => ids[j - 1] < ids[j]
            /\ g > 1 => rv.groups[g - 1].records[1] < ids[1]
            /\ \A h \in 1..Len(rv.groups) : h # g => rv.groups[h].name # rv.groups[g].name

\* C1: when create returns, the Review's Groups partition the input records by
\* the groupby attribute: every record is in exactly one Group, every member is
\* an input record carrying the Group's key, Groups come in the order their
\* keys first occur and members in their input order.
C1_Partition == Returned_ => Partitions(LastReview, groupby(report))

\* C1 witness: a Review of two Groups whose first Group skips over a record of
\* the second
C1_Witness ==
    /\ Returned_
    /\ Len(LastReview.groups) = 2
    /\ LastReview.groups[1].records = <<1, 3>>
    /\ LastReview.groups[2].records = <<2>>

\* ------------------------------------------------------------------ C2
\* the sum of field over the records at the positions S, in units of 10^-scale
RECURSIVE ScaledSum(_, _, _)
ScaledSum(S, field, scale) ==
    IF S = {} THEN 0
    ELSE LET i == CHOOSE x \in S : TRUE
             v == records[i][field]
         IN  v.n * Pow10(scale - v.d) + ScaledSum(S \ {i}, field, scale)

Members(g) == {g.records[j] : j \in 1..Len(g.records)}

\* the most decimal places any record has in field
RECURSIVE Decimals(_, _)
Decimals(field, n) ==
    IF n = 0 THEN 0
    ELSE Max(Decimals(field, n - 1),
             IF hasattr(records[n], field) THEN records[n][field].d ELSE 0)

Scale(field) == Decimals(field, Len(records))

\* g.total_field is the arithmetic sum of field over exactly g's records
TotalIs(g, field) ==
    LET total == g.attrs["total_" \o field]
    IN  /\ IsNumber(total)
        /\ total.d <= Scale(field)
        /\ total.n * Pow10(Scale(field) - total.d) = ScaledSum(Members(g), field, Scale(field))

\* C2: a Group built with (total, f) stores as total_f the arithmetic sum of f
\* over exactly its own records, and 0 when it has no records.
C2_Total ==
    built.ok =>
        \A a \in 1..Len(built.obj.addons) :
            built.obj.addons[a][1] = "total" =>
                /\ TotalIs(built.obj, built.obj.addons[a][2])
                /\ built.obj.records = <<>> =>
                       built.obj.attrs["total_" \o built.obj.addons[a][2]] = Int_(0)

\* C2 witness: a Group of two of three records, the one left out having hours
C2_Witness ==
    /\ built.ok
    /\ Len(records) = 3
    /\ built.obj.records = <<1, 3>>
    /\ records[2]["hours"] # Int_(0)
    /\ "total_hours" \in DOMAIN built.obj.attrs

\* ------------------------------------------------------------------ C3
\* every add_* name a message of the model can carry
MethodNames ==
    {"add_" \o x : x \in {"total", "fake", "payout", "custom_field", "mystery_field"}}

Names(e) == {e.msg[i] : i \in 1..Len(e.msg)} \cap MethodNames

\* the include fields of a report class that need a method it lacks
MissingFields(c) ==
    {i \in 1..Len(include(c)) :
        include(c)[i] \notin BaseFields /\ ("add_" \o include(c)[i]) \notin ReportMethods(c)}

\* the aggregate requests of a report class whose kind Group has no method for
MissingKinds(c) ==
    {i \in 1..Len(addons(c)) : ("add_" \o addons(c)[i][1]) \notin {"add_total"}}

Least(S) == CHOOSE x \in S : \A y \in S : x <= y

\* C3: a finished create call raised the configuration error (an
\* AttributeError naming add_{field}, or add_{kind} once a Group is built)
\* exactly when that method is missing, and names no method otherwise.
C3_FailsLoudly ==
    (pc = "idle" /\ ncreate > 0) =>
        IF MissingFields(report) # {}
        THEN /\ raised.type = "AttributeError"
             /\ Names(raised) = {"add_" \o include(report)[Least(MissingFields(report))]}
        ELSE IF MissingKinds(report) # {} /\ records # <<>>
        THEN /\ raised.type = "AttributeError"
             /\ Names(raised) = {"add_" \o addons(report)[Least(MissingKinds(report))][1]}
        ELSE Names(raised) = {}

\* C3 witness: the report of the tests, whose include names mystery_field, has failed
C3_Witness ==
    /\ pc = "idle"
    /\ report = "BadReport"
    /\ raised.type = "AttributeError"
    /\ "add_mystery_field" \in Names(raised)

\* ------------------------------------------------------------------ C4
\* the computed (non built-in) fields among the first n of the include list
RECURSIVE Computed(_, _)
Computed(c, n) ==
    IF n = 0 THEN <<>>
    ELSE IF include(c)[n] \in BaseFields THEN Computed(c, n - 1)
    ELSE Append(Computed(c, n - 1), include(c)[n])

\* C4: at every point of a create call, the add_* methods invoked so far are
\* those of the computed fields before the current include position, in include
\* order, once each and each on the full record list, and every record carries
\* each of those fields.
C4_IncludeOrder ==
    ncreate > 0 =>
        LET done == Computed(report, idx - 1)
        IN  /\ Len(calls) = Len(done)
            /\ \A i \in 1..Len(done) :
                /\ calls[i].method = "add_" \o done[i]
                /\ calls[i].nrecords = Len(records)
                /\ \A r \in 1..Len(records) : hasattr(records[r], done[i])

\* C4 witness: add_fields is about to call add_payout, the method of its third
\* field, after add_custom_field ran over two or more records
C4_Witness ==
    /\ pc = "add_fields"
    /\ report = "CustomReport"
    /\ idx = 3
    /\ calls = <<[method |-> "add_custom_field", nrecords |-> Len(records)]>>
    /\ Len(records) >= 2
    /\ \A r \in 1..Len(records) : hasattr(records[r], "custom_field")

\* ------------------------------------------------------------------ C5
Departments == {records[i]["department"] : i \in 1..Len(records)}

ProductScale == Scale("hours") + Scale("rate")

\* hours * rate of the record at position i, in units of 10^-ProductScale
ScaledProduct(i) ==
    LET h == records[i]["hours"]
        r == records[i]["rate"]
    IN  h.n * r.n * Pow10(ProductScale - h.d - r.d)

RECURSIVE ProductSum(_)
ProductSum(S) ==
    IF S = {} THEN 0
    ELSE LET i == CHOOSE x \in S : TRUE IN ScaledProduct(i) + ProductSum(S \ {i})

HasPayout(i) ==
    /\ hasattr(records[i], "payout")
    /\ records[i]["payout"].d <= ProductScale
    /\ records[i]["payout"].n * Pow10(ProductScale - records[i]["payout"].d)
           = ScaledProduct(i)

\* C5: in PayoutReport.create grouping starts only when every record has
\* payout = hours * rate, the call always returns, and its Review has one Group
\* per department with total_hours the sum of its records' hours and
\* total_payout the sum of their hours * rate.
C5_Payout ==
    (report = "PayoutReport" /\ ncreate > 0) =>
        /\ pc = "process" => \A i \in 1..Len(records) : HasPayout(i)
        /\ pc = "idle" =>
            /\ raised = NoErr
            /\ \A i \in 1..Len(records) : HasPayout(i)
            /\ Len(LastReview.groups) = Cardinality(Departments)
            /\ \A g \in 1..Len(LastReview.groups) :
                LET grp == LastReview.groups[g]
                    tp == grp.attrs["total_payout"]
                IN  /\ Members(grp) =
                           {i \in 1..Len(records) : records[i]["department"] = grp.name}
                    /\ TotalIs(grp, "hours")
                    /\ tp.d <= ProductScale
                    /\ tp.n * Pow10(ProductScale - tp.d) = ProductSum(Members(grp))

\* C5 witness: the three records of the scenario give HR 15 and 700, Fin 20 and 2000
C5_Witness ==
    /\ report = "PayoutReport"
    /\ Returned_
    /\ Len(records) = 3
    /\ Len(LastReview.groups) = 2
    /\ LastReview.groups[1].name = HR
    /\ LastReview.groups[1].attrs["total_hours"] = Int_(15)
    /\ LastReview.groups[1].attrs["total_payout"] = Int_(700)
    /\ LastReview.groups[2].name = Fin
    /\ LastReview.groups[2].attrs["total_hours"] = Int_(20)
    /\ LastReview.groups[2].attrs["total_payout"] = Int_(2000)

\* ------------------------------------------------------------------ C6
\* the raw value parses as a number
Parses(raw) == float(raw).ok

\* the number the raw value parses to has no fractional part
Whole(raw) == Abs(float(raw).n) % Pow10(float(raw).d) = 0

\* v is the number the raw value parses to
ValueOf(raw, v) == IsNumber(v) /\ v.n * Pow10(float(raw).d) = float(raw).n * Pow10(v.d)

\* C6: Record construction turns raw hours and rate into an int when the raw
\* value parses to a whole number, a float when it parses to a number with a
\* fractional part and 0 when it does not parse; a raw identifier becomes the
\* parsed number, or stays the raw value when it does not parse.
C6_Normalizer ==
    made # NoRecord =>
        /\ \A p \in {<<5, "hours">>, <<6, "rate">>} :
            LET raw == rawrow[p[1]]
                v == made[p[2]]
            IN  /\ (Parses(raw) /\ Whole(raw)) => (v.t = "int" /\ ValueOf(raw, v))
                /\ (Parses(raw) /\ ~Whole(raw)) => (v.t = "float" /\ ValueOf(raw, v))
                /\ ~Parses(raw) => v = Int_(0)
        /\ Parses(rawrow[1]) => ValueOf(rawrow[1], made["employee_id"])
        /\ ~Parses(rawrow[1]) => made["employee_id"] = rawrow[1]
        /\ made["department"] = rawrow[2]
        /\ made["email"] = rawrow[3]
        /\ made["name"] = rawrow[4]

\* C6 witness: raw hours that do not parse have become 0
C6_Witness ==
    /\ made # NoRecord
    /\ rawrow[5] = Str(<<"1", "x">>)
    /\ made["hours"] = Int_(0)

\* ------------------------------------------------------------------ C7
\* the table row of group g of a Review: 0 its name row, j its j-th record,
\* the row after its last record its aggregate row
RECURSIVE RowsBefore(_, _)
RowsBefore(rv, g) ==
    IF g = 1 THEN 1 ELSE RowsBefore(rv, g - 1) + 2 + Len(rv.groups[g - 1].records)

RowOf(rv, g, j) == RowsBefore(rv, g) + 1 + j

TotalsRow(rv, g) == RowOf(rv, g, Len(rv.groups[g].records) + 1)

Positions(fields, f) == {i \in 1..Len(fields) : fields[i] = f}

AddonFields(g) == {g.addons[a][2] : a \in 1..Len(g.addons)}

\* the aggregate row of group g holds each aggregate under its field's column,
\* leaves out the aggregates of fields not displayed, and is blank elsewhere
AggregateRowRight(rv, g) ==
    LET grp == rv.groups[g]
        row == out.rows[TotalsRow(rv, g)]
    IN  /\ Len(row) = Len(rv.fields) + 1
        /\ row[1] = Blank
        /\ \A i \in 1..Len(rv.fields) :
            IF rv.fields[i] \in AddonFields(grp)
            THEN \E a \in 1..Len(grp.addons) :
                    /\ grp.addons[a][2] = rv.fields[i]
                    /\ row[i + 1] = grp.attrs[grp.addons[a][1] \o "_" \o grp.addons[a][2]]
            ELSE row[i + 1] = Blank

\* C7: console renders every Review without raising, an aggregate of a field
\* that is not displayed being left out of the Group's aggregate row and every
\* other aggregate standing under its field's column.
C7_SilentlyOmitted ==
    out.k > 0 =>
        /\ out.ok
        /\ \A g \in 1..Len(reviews[out.k].groups) : AggregateRowRight(reviews[out.k], g)

\* ------------------------------------------------------------------ C8
\* the positions of the line breaks of a text, and text.split("\n")[r - 1]
Breaks(text) == {i \in 1..Len(text) : text[i] = "\n"}

BreakNo(text, k) ==
    IF k = 0 THEN 0
    ELSE IF k > Cardinality(Breaks(text)) THEN Len(text) + 1
    ELSE CHOOSE p \in Breaks(text) : Cardinality({q \in Breaks(text) : q < p}) = k - 1

Line(text, r) == SubSeq(text, BreakNo(text, r - 1) + 1, BreakNo(text, r) - 1)

\* the widest text of column c among the cells of the table
RECURSIVE Widest(_, _)
Widest(c, r) ==
    IF r = 0 THEN 0 ELSE Max(Len(str(out.rows[r][c])), Widest(c, r - 1))

\* where column c starts in a line of the table
RECURSIVE Offset(_)
Offset(c) == IF c = 1 THEN 0 ELSE Offset(c - 1) + Widest(c - 1, Len(out.rows)) + 3

\* line r of the text shows `chars` at column c, followed by blanks only
Shows(r, c, chars) ==
    LET line == Line(out.text, r)
        from == Offset(c)
        to == from + Widest(c, Len(out.rows))
    IN  /\ to <= Len(line)
        /\ \A k \in 1..(to - from) :
              line[from + k] = IF k <= Len(chars) THEN chars[k] ELSE " "

\* C8: when both renderers have rendered the same Review, the header and every
\* record row of the table and the keys of every serialized record follow
\* Review.fields, each table cell shows the value the document holds for that
\* record and field, and each aggregate of the table is the document's value.
C8_RenderersAgree ==
    (out.k > 0 /\ doc.k = out.k /\ out.ok /\ doc.ok) =>
        LET rv == reviews[out.k]
            F == rv.fields
        IN  /\ Len(out.rows[1]) = Len(F) + 1
            /\ \A i \in 1..Len(F) :
                /\ out.rows[1][i + 1] = Str(capitalize(Chars(F[i])))
                /\ Shows(1, i + 1, capitalize(Chars(F[i])))
            /\ Len(doc.d) = Len(rv.groups)
            /\ \A g \in 1..Len(rv.groups) :
                LET entry == doc.d[g].value
                    n == Len(rv.groups[g].records)
                IN  /\ doc.d[g].key = rv.groups[g].name
                    /\ Len(entry.records) = n
                    /\ \A j \in 1..n :
                        /\ Len(entry.records[j]) = Len(F)
                        /\ Len(out.rows[RowOf(rv, g, j)]) = Len(F) + 1
                        /\ \A i \in 1..Len(F) :
                            /\ entry.records[j][i].key = F[i]
                            /\ out.rows[RowOf(rv, g, j)][i + 1] = entry.records[j][i].value
                            /\ Shows(RowOf(rv, g, j), i + 1, str(entry.records[j][i].value))
                    /\ \A a \in 1..Len(rv.groups[g].addons) :
                        LET addon == rv.groups[g].addons[a]
                            name == addon[1] \o "_" \o addon[2]
                        IN  /\ DictHas(entry.addons, name)
                            /\ \A i \in Positions(F, addon[2]) :
                                /\ out.rows[TotalsRow(rv, g)][i + 1] = DictGet(entry.addons, name)
                                /\ Shows(TotalsRow(rv, g), i + 1,
                                         str(DictGet(entry.addons, name)))

\* C8 witness: both renderers have rendered a payout Review of two Groups, one
\* with a fractional total
C8_Witness ==
    /\ out.k > 0
    /\ doc.k = out.k
    /\ out.ok
    /\ doc.ok
    /\ report = "PayoutReport"
    /\ Len(reviews[out.k].groups) = 2
    /\ \E g \in 1..2 : reviews[out.k].groups[g].attrs["total_hours"].t = "float"

\* ------------------------------------------------------------------ C9
\* the format of the command line has no save_as_* method
Unsupported == ("save_as_" \o args.format) \notin SaveMethods

\* how often a main() run has done e
Count(e) == Cardinality({i \in 1..Len(events) : events[i] = e})

\* main() has ended with the exception of SaveToFile.__init__
BindFailed == mainpc = "done" /\ raised = ForbiddenMagic(args.format)

\* C9 as stated: whenever a main() run fails at output binding on an
\* unsupported format, no rendering of the Review has been attempted and no
\* file has been written, the echo being enabled or not.
C9_FailsBeforeRendering ==
    BindFailed => Count("console") = 0 /\ Count("jsonfile") = 0 /\ disk = <<>>

\* C9 amended: in a main() run with an unsupported format no file is ever
\* written, no SaveToFile object exists, the document renderer never runs and
\* no save method is entered; once SaveToFile(...) has been called the run has
\* ended with its AttributeError, the call is the last thing the run did, and
\* the table renderer ran exactly once before it when the echo is enabled
\* and not at all under --silent.
C9_FailsAtBinding ==
    (mainpc # "off" /\ Unsupported) =>
        /\ disk = <<>>
        /\ saver = NoSaver
        /\ mainpc # "save"
        /\ Count("jsonfile") = 0
        /\ Count("write") = 0
        /\ Count("bind") > 0 =>
            /\ BindFailed
            /\ events[Len(events)] = "bind"
            /\ Count("bind") = 1
            /\ Count("console") = IF args.silent THEN 0 ELSE 1
            /\ Count("print") = Count("console")

\* C9 witness: a run with the echo enabled, an output path and the format
\* xml has printed the table and then failed in SaveToFile(...)
C9_Witness ==
    /\ args.format = "xml"
    /\ ~args.silent
    /\ Truthy(args.output)
    /\ BindFailed
    /\ events = <<"loaded", "create", "console", "print", "bind">>
    /\ out.ok
    /\ disk = <<>>

\* ------------------------------------------------------------------ C10
\* the positions of the Records the Groups of the k-th Review hold
Held(k) ==
    UNION {Members(reviews[k].groups[g]) : g \in 1..Len(reviews[k].groups)}

\* the step leaves every Record of an already formed Group as it was
GroupedRecordsKept ==
    \A k \in 1..Len(reviews) : \A i \in Held(k) : records'[i] = records[i]

\* no Record is in Groups of two Reviews
NeverShared ==
    \A k1 \in 1..Len(reviews) : \A k2 \in 1..Len(reviews) :
        k1 # k2 => Held(k1) \cap Held(k2) = {}

\* C10 as stated: over any sequence of create calls no Record of a formed
\* Group changes afterwards, and no Record is a member of Groups of two
\* different Reviews.
C10_FrozenAfterGrouping == [][GroupedRecordsKept]_vars /\ []NeverShared

\* the step changes the records only as one add_* call of the running create
\* does: before that call's Groups are formed, on the computed attribute of
\* the include field under way, leaving every other attribute, the number
\* and the order of the records as they were
AugmentationOnly ==
    records' # records =>
        /\ pc = "add_fields"
        /\ reviews' = reviews
        /\ Len(records') = Len(records)
        /\ \A i \in 1..Len(records) :
            /\ DOMAIN records'[i] = DOMAIN records[i] \cup {include(report)[idx]}
            /\ \A f \in DOMAIN records[i] \ {include(report)[idx]} :
                records'[i][f] = records[i][f]

\* every Review returned so far holds every Record of the list
AllShared == \A k \in 1..Len(reviews) : Held(k) = 1..Len(records)

\* C10 amended: a create call changes Records only in its add_* calls, before
\* it forms its Groups, and only in the computed attribute; a later create
\* call on the same list does so again on Records that Groups of earlier
\* Reviews hold, and the Groups of every Review hold the same Records.
C10_MutatedOnlyByAugmentation == [][AugmentationOnly]_vars /\ []AllShared

\* C10 witness: Report().create and then PayoutReport().create have returned
\* on the same list; the Records the first Review holds have gained payout
C10_Witness ==
    /\ pc = "idle"
    /\ Len(reviews) = 2
    /\ reviews[1].fields = include("Report")
    /\ reviews[2].fields = include("PayoutReport")
    /\ records # <<>>
    /\ Held(1) \cap Held(2) = 1..Len(records)
    /\ \A i \in Held(1) : hasattr(records[i], "payout")

\* ------------------------------------------------------------------ C11
\* a create call has ended, by returning or by raising
Ended == pc = "idle" /\ ncreate > 0

\* C11 as stated: every Review create returns has the include list of its
\* report as its fields, and on the empty record list create raises nothing
\* and returns a Review of no Groups with those fields.
C11_EmptyListNeverFails ==
    Ended =>
        /\ raised = NoErr => LastReview.fields = include(report)
        /\ records = <<>> =>
            /\ raised = NoErr
            /\ LastReview.groups = <<>>
            /\ LastReview.fields = include(report)

\* C11 amended: every Review create returns has the include list of its
\* report as its fields, names and order; on the empty record list a report
\* whose computed include fields all have their add_* method returns a Review
\* of no Groups with those fields and raises nothing, whatever its aggregate
\* requests are, and a report with a computed include field that lacks its
\* method raises the configuration error of the first such field and returns
\* no Review.
C11_FieldsVerbatim ==
    Ended =>
        /\ raised = NoErr => LastReview.fields = include(report)
        /\ records = <<>> =>
            IF MissingFields(report) = {}
            THEN /\ raised = NoErr
                 /\ LastReview.groups = <<>>
                 /\ LastReview.fields = include(report)
            ELSE /\ raised = ReportMissing(include(report)[Least(MissingFields(report))])
                 /\ Len(reviews) < ncreate

\* C11 witness: on the empty list the report of the tests whose include names
\* mystery_field has raised, after PayoutReport returned a Review of no Groups
C11_Witness ==
    /\ Ended
    /\ records = <<>>
    /\ report = "BadReport"
    /\ raised = ReportMissing("mystery_field")
    /\ Len(reviews) = 1
    /\ reviews[1] = Review(<<>>, include("PayoutReport"))

\* ------------------------------------------------------------------ C12
\* the header of the file load_records was called on, and its data rows
CsvHeader == ReadLines(fs["data"])[1]

DataRows == Len(fs["data"]) - 1

\* the header places whose name is none of columns
Strangers == {n \in 1..Len(CsvHeader) : \A c \in 1..Len(columns) : columns[c] # CsvHeader[n]}

\* the Record position (from 0) the header column at place n is mapped to
Position(n) ==
    LET c == CHOOSE c \in 1..Len(columns) : columns[c] = CsvHeader[n]
    IN  IF c > 6 THEN 5 ELSE c - 1

\* the header has six columns, one for each Record position
OnePerPosition ==
    /\ Len(CsvHeader) = 6
    /\ {Position(n) : n \in 1..Len(CsvHeader)} = 0..5

\* the cell of data row r under the header column mapped to position p
CellAt(r, p) ==
    ReadLines(fs["data"])[r + 1][CHOOSE n \in 1..Len(CsvHeader) : Position(n) = p]

RECURSIVE LineCount(_, _)
LineCount(rv, g) ==
    IF g = 0 THEN 1 ELSE LineCount(rv, g - 1) + 2 + Len(rv.groups[g].records)

\* C13: whenever console has returned a table for a Review, the table has
\* 1 + the sum over the Groups of (2 + records) rows, the text has as many
\* lines and does not end in a line break, every row has 1 + |fields| cells,
\* the first row is a blank cell and the capitalized field names, and every
\* Group, in the Review's order, has its name followed by blanks, one row per
\* record in the Group's order with a blank cell and the record's values in
\* field order, and one aggregate row that begins with a blank cell.
C13_TableShape ==
    (out.k > 0 /\ out.ok) =>
        LET rv == reviews[out.k]
            F == rv.fields
            N == LineCount(rv, Len(rv.groups))
        IN  /\ Len(out.rows) = N
            /\ Cardinality(Breaks(out.text)) + 1 = N
            /\ out.text # <<>> => out.text[Len(out.text)] # "\n"
            /\ \A r \in 1..N : Len(out.rows[r]) = 1 + Len(F)
            /\ out.rows[1] = <<Blank>> \o [i \in 1..Len(F) |-> Str(capitalize(Chars(F[i])))]
            /\ \A g \in 1..Len(rv.groups) :
                LET ids == rv.groups[g].records
                IN  /\ out.rows[RowOf(rv, g, 0)]
                            = <<rv.groups[g].name>> \o [i \in 1..Len(F) |-> Blank]
                    /\ \A j \in 1..Len(ids) :
                            out.rows[RowOf(rv, g, j)]
                                = <<Blank>> \o [i \in 1..Len(F) |-> records[ids[j]][F[i]]]
                    /\ out.rows[TotalsRow(rv, g)][1] = Blank
                    /\ g < Len(rv.groups) => TotalsRow(rv, g) + 1 = RowOf(rv, g + 1, 0)
                    /\ g = Len(rv.groups) => TotalsRow(rv, g) = N

\* C13 witness: the table of a payout Review of two Groups and three records,
\* eight lines
C13_Witness ==
    /\ out.k > 0
    /\ out.ok
    /\ report = "PayoutReport"
    /\ Len(reviews[out.k].groups) = 2
    /\ Len(records) = 3
    /\ Len(out.rows) = 8
    /\ Cardinality(Breaks(out.text)) = 7

\* ------------------------------------------------------------------ C14
\* the create call that ended last raised the configuration error of the
\* include field at place k
FailedAt(k) ==
    /\ Ended
    /\ k \in 1..Len(include(report))
    /\ raised = ReportMissing(include(report)[k])

\* what add_* of a computed field leaves in a record
Augmented(record, field) ==
    CASE field = "payout" -> PyMul(record["hours"], record["rate"])
      [] field = "custom_field" -> HeySup

\* a step in which add_fields raises changes neither the records nor the
\* Reviews and ends the call before process
RaisesAndLeaves ==
    (pc = "add_fields" /\ raised' # NoErr) =>
        /\ pc' = "idle"
        /\ records' = records
        /\ reviews' = reviews
        /\ built' = built

\* C14: when create has failed with the configuration error of include field
\* k, the add_* methods called are those of the computed include fields before
\* k, once each and in order, on the whole list; every record carries what
\* they set; the failing step itself put nothing back and built no Group and
\* no Review, so fewer Reviews than create calls exist.
C14_PartialAugmentation ==
    /\ [](\A k \in 1..3 :
            FailedAt(k) =>
                /\ k = Least(MissingFields(report))
                /\ Len(calls) = Len(Computed(report, k - 1))
                /\ \A n \in 1..Len(calls) :
                    /\ calls[n].method = "add_" \o Computed(report, k - 1)[n]
                    /\ calls[n].nrecords = Len(records)
                /\ \A i \in 1..Len(records) : \A n \in 1..Len(calls) :
                    LET field == Computed(report, k - 1)[n]
                    IN  /\ hasattr(records[i], field)
                        /\ records[i][field] = Augmented(records[i], field)
                /\ Len(reviews) < ncreate)
    /\ [][RaisesAndLeaves]_vars

\* C14 witness: a report that includes payout, mystery_field and custom_field
\* has failed at mystery_field; add_payout alone has run and the records keep
\* their payout
C14_Witness ==
    /\ report = "HalfReport"
    /\ FailedAt(2)
    /\ calls = <<[method |-> "add_payout", nrecords |-> Len(records)]>>
    /\ records # <<>>
    /\ \A i \in 1..Len(records) :
        /\ hasattr(records[i], "payout")
        /\ ~hasattr(records[i], "custom_field")

====
